---- MODULE Spec2Model ----
(***************************************************************************)
(* reselect-immutable-helpers (src/index.js): selector builders over       *)
(* reselect's one-entry memoizer and Immutable's structural equality.      *)
(*                                                                         *)
(* A JavaScript value is a record                                          *)
(*   [kind, ref, num, str, items, keys]                                    *)
(* kind  : "undefined" "null" "boolean" "number" "string" (primitives),    *)
(*         "List" "Map" (Immutable collections), "array" "object" (plain   *)
(*         structures), "Custom" (an object with a toJS method of its own  *)
(*         that raises), "TypeError" and "Error" (what a call raised: a    *)
(*         method the value lacks was called; a selector or a toJS of the  *)
(*         application raised, str telling which);                         *)
(* ref   : the identity of an object (0 for primitives).  Objects of the   *)
(*         application state carry the ids 1..FirstFreeRef-1; an object    *)
(*         allocated during a call carries the allocation counter's value  *)
(*         at that time (everything one toJS() run allocates shares it);   *)
(* num   : the number, or 0/1 for a boolean;   str : the string;           *)
(* items : the elements (List, array) or the values (Map, object);         *)
(* keys  : the keys of a Map or an object, keys[i] going with items[i].    *)
(*                                                                         *)
(* Every call of a built selector appends one entry to `log`:              *)
(*   [sel, args, out, recomputed]                                          *)
(* sel the selector instance, args the values the selectors it was built   *)
(* from select in the state of that call (for a get or has selector the    *)
(* container and the key selector's value), out the value returned (or     *)
(* what the call raised), recomputed whether the combiner was run.         *)
(***************************************************************************)
EXTENDS Integers, Sequences, FiniteSets, TLC

VARIABLES memo, nextRef, log

vars == <<memo, nextRef, log>>

\* Longest call sequence explored.
MaxCalls == 3

-----------------------------------------------------------------------------
(* JavaScript values *)

Prim(kind, num, str) ==
    [kind |-> kind, ref |-> 0, num |-> num, str |-> str, items |-> <<>>, keys |-> <<>>]

Obj(kind, ref, keys, items) ==
    [kind |-> kind, ref |-> ref, num |-> 0, str |-> "", items |-> items, keys |-> keys]

Undefined == Prim("undefined", 0, "")
Null      == Prim("null", 0, "")
Bool(b)   == Prim("boolean", IF b THEN 1 ELSE 0, "")
Num(n)    == Prim("number", n, "")
Str(s)    == Prim("string", 0, s)
TypeError == Prim("TypeError", 0, "")

\* What a selector or a method of the application raises.
Raise(what) == Prim("Error", 0, what)

SelectorError == Raise("selector")
KeyError      == Raise("key selector")
ToJSError     == Raise("toJS")

IsFailure(v) == v.kind \in {"TypeError", "Error"}

PrimitiveKinds == {"undefined", "null", "boolean", "number", "string"}
ImmutableKinds == {"List", "Map"}

IsPrimitive(v) == v.kind \in PrimitiveKinds

\* JavaScript truthiness: !v is true for undefined, null, false, 0 and "".
Truthy(v) ==
    CASE v.kind \in {"undefined", "null"} -> FALSE
      [] v.kind = "boolean" -> v.num = 1
      [] v.kind = "number"  -> v.num # 0
      [] v.kind = "string"  -> v.str # ""
      [] OTHER -> TRUE

\* typeof v
Typeof(v) ==
    CASE v.kind = "undefined" -> "undefined"
      [] v.kind = "boolean"   -> "boolean"
      [] v.kind = "number"    -> "number"
      [] v.kind = "string"    -> "string"
      [] OTHER -> "object"

\* a === b: primitives by value, objects by identity.
StrictEq(a, b) ==
    IF IsPrimitive(a) \/ IsPrimitive(b)
    THEN a = b
    ELSE a.ref = b.ref

\* The value stored under key k of a Map or an object (k one of its keys).
Lookup(m, k) == m.items[CHOOSE i \in DOMAIN m.keys : m.keys[i] = k]

KeySet(m) == {m.keys[i] : i \in DOMAIN m.keys}

\* Immutable.is(a, b): identical values, or two collections of the same type
\* with equal contents (a Map's entries in any order).
RECURSIVE Is(_, _)
Is(a, b) ==
    \/ StrictEq(a, b)
    \/ /\ a.kind = "List" /\ b.kind = "List"
       /\ Len(a.items) = Len(b.items)
       /\ \A i \in DOMAIN a.items : Is(a.items[i], b.items[i])
    \/ /\ a.kind = "Map" /\ b.kind = "Map"
       /\ KeySet(a) = KeySet(b)
       /\ \A k \in KeySet(a) : Is(Lookup(a, k), Lookup(b, k))

\* value.toJS() of an Immutable collection: a deep conversion to newly
\* allocated plain arrays and objects; values that are no collections are kept.
RECURSIVE ToJS(_, _)
ToJS(v, fresh) ==
    CASE v.kind = "List" ->
           Obj("array", fresh, <<>>, [i \in DOMAIN v.items |-> ToJS(v.items[i], fresh)])
      [] v.kind = "Map" ->
           Obj("object", fresh, v.keys, [i \in DOMAIN v.items |-> ToJS(v.items[i], fresh)])
      [] v.kind = "Custom" -> ToJSError
      [] OTHER -> v

\* 'toJS' in item
HasToJS(item) == item.kind \in ImmutableKinds \cup {"Custom"} \/ "toJS" \in KeySet(item)

\* typeof item.toJS === 'function'
ToJSCallable(item) == item.kind \in ImmutableKinds \cup {"Custom"}

\* obj.get and obj.has exist: Immutable collections have them, the other
\* values of this model do not.
HasGet(obj) == obj.kind \in ImmutableKinds

\* Immutable's has(k): a key of the Map, an index below the List's size.
ImmutableHas(obj, k) ==
    CASE obj.kind = "Map"  -> k.kind = "string" /\ k.str \in KeySet(obj)
      [] obj.kind = "List" -> k.kind = "number" /\ k.num \in 0..(Len(obj.items) - 1)
      [] OTHER -> FALSE

\* Immutable's get(k, notSetValue).
ImmutableGet(obj, k, notSetValue) ==
    IF ~ImmutableHas(obj, k) THEN notSetValue
    ELSE IF obj.kind = "Map" THEN Lookup(obj, k.str)
    ELSE obj.items[k.num + 1]

\* Deep equality of plain structures: same shape and same primitives, whatever
\* the identities.
RECURSIVE DeepEqual(_, _)
DeepEqual(a, b) ==
    /\ a.kind = b.kind
    /\ a.num = b.num
    /\ a.str = b.str
    /\ IF a.kind = "object"
       THEN /\ KeySet(a) = KeySet(b)
            /\ \A k \in KeySet(a) : DeepEqual(Lookup(a, k), Lookup(b, k))
       ELSE /\ Len(a.items) = Len(b.items)
            /\ a.keys = b.keys
            /\ \A i \in DOMAIN a.items : DeepEqual(a.items[i], b.items[i])

-----------------------------------------------------------------------------
(* The values the application state holds *)

PlainObj1 == Obj("object", 1, <<"object">>, <<Str("yes")>>)
PlainObj2 == Obj("object", 2, <<"object">>, <<Str("yes")>>)
PlainArr  == Obj("array", 3, <<>>, <<Num(1), Num(2), Num(3)>>)
NoFnToJS  == Obj("object", 4, <<"toJS">>, <<Bool(FALSE)>>)
List123a  == Obj("List", 5, <<>>, <<Num(1), Num(2), Num(3)>>)
List123b  == Obj("List", 6, <<>>, <<Num(1), Num(2), Num(3)>>)
List12    == Obj("List", 7, <<>>, <<Num(1), Num(2)>>)
NestedA   == Obj("Map", 8, <<"test", "numbers">>,
                 <<Bool(TRUE), Obj("List", 9, <<>>, <<Num(1), Num(1)>>)>>)
NestedB   == Obj("Map", 10, <<"numbers", "test">>,
                 <<Obj("List", 11, <<>>, <<Num(1), Num(1)>>), Bool(TRUE)>>)

Falsy == {Undefined, Null, Bool(FALSE), Num(0), Str("")}

PlainValues == {Bool(TRUE), Num(5), Str("text"), PlainObj1, PlainObj2, PlainArr, NoFnToJS}

ImmutableValues == {List123a, List123b, List12, NestedA, NestedB}

Values == Falsy \cup PlainValues \cup ImmutableValues

\* What the selectors handed to selectorToJS select: absent values,
\* collections, and one value that is neither.
ToJSValues == Falsy \cup ImmutableValues \cup {Num(5)}

\* The identities of an object and of the objects it holds.
RECURSIVE RefsOf(_)
RefsOf(v) == {v.ref} \cup UNION {RefsOf(v.items[i]) : i \in DOMAIN v.items}

\* What the two selectors handed to createPropsSelector select.
PropValuesA == {Num(7), PlainObj1, List123a, List123b, List12}
PropValuesB == {Undefined, Str("string"), NestedA, NestedB}

\* The containers and keys the get and has selectors are applied to.
MapKey   == Obj("Map", 12, <<"key", "bystander">>, <<Str("value"), Str("intervention")>>)
MapOther == Obj("Map", 13, <<"irrelevant">>, <<Str("nonsense")>>)
ListTwo  == Obj("List", 14, <<>>, <<Str("zeroth"), Str("first")>>)
ListOne  == Obj("List", 15, <<>>, <<Str("zeroth")>>)

Containers == {MapKey, MapOther, ListTwo, ListOne, Undefined}

Keys == {Str("key"), Str("absent"), Num(1)}

\* What the selector handed to invertSelector selects.
InvertValues == {Bool(TRUE), Bool(FALSE), Num(0), Str("text"), Undefined, Null}

\* What the selectors select, or raise, in the runs with failures.
FailValues == {List123a, List12, Obj("Custom", 16, <<>>, <<>>), SelectorError}
FailPropsA == {List123a, SelectorError}
FailPropsB == {Str("string"), Obj("Custom", 16, <<>>, <<>>), SelectorError}
FailContainers == {MapKey, MapOther, Undefined, SelectorError}
FailKeys == {Str("key"), KeyError}

\* Two selectors from each of two builders, and what their input selectors
\* select.
TwoInstances == {"E1", "E2", "GStr", "GInt"}
TwoValues == {List123a, List123b, List12, Num(5), Undefined, PlainObj1}
TwoContainers == {MapKey, ListTwo, MapOther}

\* An object whose own toJS method raises.
BadToJS == CHOOSE v \in FailValues : v.kind = "Custom"

StateValues == Values \cup Containers \cup {BadToJS}

\* The first identity no object of the application state has.
FirstFreeRef ==
    LET used == UNION {RefsOf(v) : v \in StateValues}
    IN  1 + CHOOSE r \in used : \A q \in used : q <= r

-----------------------------------------------------------------------------
(* reselect: createSelectorCreator(defaultMemoize, equalityCheck) *)

\* Selector instances: E1 = ensureJSSelector(sel), E2 = ensureJSSelector(sel)
\* built by another call of the builder, T1 = selectorToJS(sel),
\* P = createPropsSelector({a: selA, b: selB}) with its two wrapped selectors
\* P.a and P.b, GStr = createGetSelector(sel, 'key', 'key not found'),
\* GInt = createGetSelector(sel, 1), GSel = createGetSelector(sel, keySel,
\* 'key not found'), HStr = createHasSelector(sel, 'key'), HInt =
\* createHasSelector(sel, 1), HSel = createHasSelector(sel, keySel),
\* Inv = invertSelector(sel), InvInv = invertSelector(Inv).
EnsureJSInstances == {"E1", "E2"}
ToJSInstances == {"T1"}
PropKeys == <<"a", "b">>
GetInstances == {"GStr", "GInt", "GSel"}
HasInstances == {"HStr", "HInt", "HSel"}
Instances ==
    EnsureJSInstances \cup ToJSInstances \cup {"P", "P.a", "P.b"}
        \cup GetInstances \cup HasInstances \cup {"Inv", "InvInv"}

\* typeof key === 'function'
KeyIsSelector(sel) == sel \in {"GSel", "HSel"}

\* The key given to the builder when it is no selector.
LiteralKey(sel) == IF sel \in {"GInt", "HInt"} THEN Num(1) ELSE Str("key")

\* The defaultValue given to createGetSelector (undefined when none was).
DefaultValue(sel) == IF sel = "GInt" THEN Undefined ELSE Str("key not found")

\* The instances built by createImmutableComparingSelector compare the
\* values of their input selectors with Immutable.is; the ones built by
\* createSelector compare them with ===.
OnlyStrictEq(sel, a, b) == StrictEq(a, b)
EqualityCheck(sel, a, b) ==
    IF sel \in EnsureJSInstances \cup ToJSInstances \cup {"P.a", "P.b"}
    THEN Is(a, b)
    ELSE StrictEq(a, b)

\* The memo cell a selector instance uses: every call of a builder builds a
\* memoized function of its own.
OneCellPerBuilder(sel) ==
    IF sel \in EnsureJSInstances THEN "E1"
    ELSE IF sel \in GetInstances THEN "GStr"
    ELSE sel
CellOf(sel) == sel

EmptyCell == [called |-> FALSE, lastArgs |-> <<>>, lastResult |-> Null]

\* defaultMemoize's test: a previous call exists, with as many arguments,
\* each equal to the current one.
NeverHit(sel, cell, args) == FALSE
MemoHit(sel, cell, args) ==
    /\ cell.called
    /\ Len(cell.lastArgs) = Len(args)
    /\ \A i \in DOMAIN args : EqualityCheck(sel, cell.lastArgs[i], args[i])

-----------------------------------------------------------------------------
(* The combiners of src/index.js.  `fresh` is the identity a newly          *)
(* allocated result would get.                                              *)

\* selectorToJS: (raw) => raw ? raw.toJS() : null
SelectorToJSFunc(raw, fresh) ==
    IF Truthy(raw)
    THEN IF ToJSCallable(raw) THEN ToJS(raw, fresh) ELSE TypeError
    ELSE Null

\* ensureJSSelector's combiner.
EnsureJSNoDefault(item, fresh) ==
    IF ~Truthy(item) \/ Typeof(item) # "object" THEN item
    ELSE IF HasToJS(item) /\ ToJSCallable(item) THEN ToJS(item, fresh)
    ELSE item
EnsureJSShallow(item, fresh) ==
    LET it == IF item = Undefined THEN Null ELSE item
    IN  IF ~Truthy(it) \/ Typeof(it) # "object" THEN it
        ELSE IF HasToJS(it) /\ ToJSCallable(it)
             THEN Obj(IF it.kind = "List" THEN "array" ELSE "object", fresh, it.keys, it.items)
        ELSE it
EnsureJSPresenceOnly(item, fresh) ==
    LET it == IF item = Undefined THEN Null ELSE item
    IN  IF ~Truthy(it) \/ Typeof(it) # "object" THEN it
        ELSE IF HasToJS(it)
             THEN (IF ToJSCallable(it) THEN ToJS(it, fresh) ELSE TypeError)
             ELSE it
EnsureJSFunc(item, fresh) ==
    LET it == IF item = Undefined THEN Null ELSE item     \* (item = null) =>
    IN  IF ~Truthy(it) \/ Typeof(it) # "object" THEN it
        ELSE IF HasToJS(it) /\ ToJSCallable(it) THEN ToJS(it, fresh)
        ELSE it

\* createStructuredSelector's combiner: a new object holding, under each key
\* of the mapping, the value of that key's selector.
StructuredReversed(keys, values, fresh) ==
    Obj("object", fresh, keys, [i \in DOMAIN values |-> values[Len(values) + 1 - i]])
StructuredFunc(keys, values, fresh) == Obj("object", fresh, keys, values)

\* createGetSelector: (obj, keyValue) => obj.get(keyValue, defaultValue)
GetFuncGuarded(obj, keyValue, defaultValue) ==
    IF HasGet(obj) THEN ImmutableGet(obj, keyValue, defaultValue) ELSE defaultValue
GetFuncNoDefault(obj, keyValue, defaultValue) ==
    IF HasGet(obj) THEN ImmutableGet(obj, keyValue, Undefined) ELSE TypeError
GetFunc(obj, keyValue, defaultValue) ==
    IF HasGet(obj) THEN ImmutableGet(obj, keyValue, defaultValue) ELSE TypeError

\* createHasSelector: (obj, keyValue) => obj.has(keyValue)
HasFunc(obj, keyValue) ==
    IF HasGet(obj) THEN Bool(ImmutableHas(obj, keyValue)) ELSE TypeError

\* invertSelector: (bool) => !bool
InvertFuncSame(bool) == bool
InvertFunc(bool) == Bool(~Truthy(bool))

\* Whether running the combiner on args allocates.
Allocates(v) == v.kind \in ImmutableKinds

-----------------------------------------------------------------------------
(* One call of a memoized selector: the cell after it, what it returns.     *)

\* defaultMemoize: on a miss lastResult = func(args), then lastArgs = args; a
\* combiner that raises leaves the cell as it was.  (reselect also keeps, per
\* selector, the last state argument and answers a call on the identical
\* state object without running the input selectors; states are immutable,
\* so that answer is the one this cell gives for identical arguments.)
StepArgsKeptOnRaise(sel, cell, args, result) ==
    LET hit == MemoHit(sel, cell, args)
        out == IF hit THEN cell.lastResult ELSE result
    IN  [cell |-> IF IsFailure(out) /\ ~hit
                  THEN [called |-> TRUE, lastArgs |-> args, lastResult |-> cell.lastResult]
                  ELSE [called |-> TRUE, lastArgs |-> args, lastResult |-> out],
         out |-> out,
         recomputed |-> ~hit]
Step(sel, cell, args, result) ==
    LET hit == MemoHit(sel, cell, args)
        out == IF hit THEN cell.lastResult ELSE result
    IN  [cell |-> IF IsFailure(out) /\ ~hit THEN cell
                  ELSE [called |-> TRUE, lastArgs |-> args, lastResult |-> out],
         out |-> out,
         recomputed |-> ~hit]

\* The first failure among the values of the input selectors, which run in
\* order.
FirstFailure(args) ==
    args[CHOOSE i \in DOMAIN args :
             IsFailure(args[i]) /\ \A j \in 1..(i - 1) : ~IsFailure(args[j])]

\* One call of a selector built by createSelector: the input selectors run
\* first, and when one of them raises the memoized combiner is not reached.
Select(sel, cell, args, result) ==
    IF \E i \in DOMAIN args : IsFailure(args[i])
    THEN [cell |-> cell, out |-> FirstFailure(args), recomputed |-> FALSE]
    ELSE Step(sel, cell, args, result)

Record(sel, args, st) ==
    log' = Append(log, [sel |-> sel, args |-> args, out |-> st.out,
                        recomputed |-> st.recomputed])

Init ==
    /\ memo = [s \in Instances |-> EmptyCell]
    /\ nextRef = FirstFreeRef
    /\ log = <<>>

\* ensureJSSelector(selector)(state), v the value selector(state).
CallEnsureJS(s, v) ==
    LET st == Select(s, memo[CellOf(s)], <<v>>, EnsureJSFunc(v, nextRef))
    IN  /\ Len(log) < MaxCalls
        /\ memo' = [memo EXCEPT ![CellOf(s)] = st.cell]
        /\ nextRef' = IF st.recomputed /\ Allocates(v) THEN nextRef + 1 ELSE nextRef
        /\ Record(s, <<v>>, st)

\* selectorToJS(selector)(state), v the value selector(state).
CallSelectorToJS(s, v) ==
    LET st == Select(s, memo[s], <<v>>, SelectorToJSFunc(v, nextRef))
    IN  /\ Len(log) < MaxCalls
        /\ memo' = [memo EXCEPT ![s] = st.cell]
        /\ nextRef' = IF st.recomputed /\ Allocates(v) THEN nextRef + 1 ELSE nextRef
        /\ Record(s, <<v>>, st)

\* createPropsSelector({a: selA, b: selB})(state), va and vb the values
\* selA(state) and selB(state): the wrapped selectors run in the mapping's
\* order, then the structured selector on what they returned.
CallProps(va, vb) ==
    LET stA  == Select("P.a", memo["P.a"], <<va>>, EnsureJSFunc(va, nextRef))
        refA == IF stA.recomputed /\ Allocates(va) THEN nextRef + 1 ELSE nextRef
        \* P.b is not reached when P.a raised.
        stB  == IF IsFailure(stA.out)
                THEN [cell |-> memo["P.b"], out |-> Undefined, recomputed |-> FALSE]
                ELSE Select("P.b", memo["P.b"], <<vb>>, EnsureJSFunc(vb, refA))
        refB == IF stB.recomputed /\ Allocates(vb) THEN refA + 1 ELSE refA
        norm == <<stA.out, stB.out>>
        stP  == Select("P", memo["P"], norm, StructuredFunc(PropKeys, norm, refB))
    IN  /\ Len(log) < MaxCalls
        /\ memo' = [memo EXCEPT !["P.a"] = stA.cell, !["P.b"] = stB.cell, !["P"] = stP.cell]
        /\ nextRef' = IF stP.recomputed THEN refB + 1 ELSE refB
        /\ Record("P", <<va, vb>>, stP)

\* The values of a get or has selector's input selectors: the container,
\* and the key when the key is a selector.
LookupArgsNoKey(s, obj, key) == <<obj>>
LookupArgs(s, obj, key) == IF KeyIsSelector(s) THEN <<obj, key>> ELSE <<obj>>

\* The key the combiner looks up.
KeyValue(s, key) == IF KeyIsSelector(s) THEN key ELSE LiteralKey(s)

\* createGetSelector(selector, key, defaultValue)(state), obj the value
\* selector(state) and key the value key(state) (when key is a selector).
CallGet(s, obj, key) ==
    LET args == LookupArgs(s, obj, key)
        st   == Select(s, memo[CellOf(s)], args,
                       GetFunc(obj, KeyValue(s, key), DefaultValue(s)))
    IN  /\ Len(log) < MaxCalls
        /\ memo' = [memo EXCEPT ![CellOf(s)] = st.cell]
        /\ UNCHANGED nextRef
        /\ Record(s, <<obj, key>>, st)

\* createHasSelector(selector, key)(state).
CallHas(s, obj, key) ==
    LET args == LookupArgs(s, obj, key)
        st   == Select(s, memo[s], args, HasFunc(obj, KeyValue(s, key)))
    IN  /\ Len(log) < MaxCalls
        /\ memo' = [memo EXCEPT ![s] = st.cell]
        /\ UNCHANGED nextRef
        /\ Record(s, <<obj, key>>, st)

\* invertSelector(selector)(state), v the value selector(state).
CallInvert(v) ==
    LET st == Select("Inv", memo["Inv"], <<v>>, InvertFunc(v))
    IN  /\ Len(log) < MaxCalls
        /\ memo' = [memo EXCEPT !["Inv"] = st.cell]
        /\ UNCHANGED nextRef
        /\ Record("Inv", <<v>>, st)

\* invertSelector(invertSelector(selector))(state): the inner selector is
\* the outer one's input selector, and runs first.
CallInvertInvert(v) ==
    LET stI == Select("Inv", memo["Inv"], <<v>>, InvertFunc(v))
        st  == Select("InvInv", memo["InvInv"], <<stI.out>>, InvertFunc(stI.out))
    IN  /\ Len(log) < MaxCalls
        /\ memo' = [memo EXCEPT !["Inv"] = stI.cell, !["InvInv"] = st.cell]
        /\ UNCHANGED nextRef
        /\ Record("InvInv", <<v>>, st)

NextJS ==
    \/ \E v \in Values : CallEnsureJS("E1", v)
    \/ \E v \in ToJSValues : CallSelectorToJS("T1", v)

SpecJS == Init /\ [][NextJS]_vars

NextProps == \E va \in PropValuesA, vb \in PropValuesB : CallProps(va, vb)

SpecProps == Init /\ [][NextProps]_vars

NextGet ==
    \/ \E s \in {"GStr", "GInt"}, obj \in Containers : CallGet(s, obj, Undefined)
    \/ \E obj \in Containers, key \in Keys : CallGet("GSel", obj, key)

SpecGet == Init /\ [][NextGet]_vars

NextHas ==
    \/ \E s \in {"HStr", "HInt"}, obj \in Containers : CallHas(s, obj, Undefined)
    \/ \E obj \in Containers, key \in Keys : CallHas("HSel", obj, key)

SpecHas == Init /\ [][NextHas]_vars

NextInvert ==
    \/ \E v \in InvertValues : CallInvert(v)
    \/ \E v \in InvertValues : CallInvertInvert(v)

SpecInvert == Init /\ [][NextInvert]_vars

\* Calls whose input selectors or combiners may raise.
NextFail ==
    \/ \E v \in FailValues : CallEnsureJS("E1", v)
    \/ \E va \in FailPropsA, vb \in FailPropsB : CallProps(va, vb)
    \/ \E obj \in FailContainers : CallGet("GStr", obj, Undefined)
    \/ \E obj \in FailContainers \ {MapOther}, key \in FailKeys : CallGet("GSel", obj, key)
    \/ \E obj \in FailContainers : CallHas("HStr", obj, Undefined)
    \/ \E obj \in {MapKey, Undefined}, key \in FailKeys : CallHas("HSel", obj, key)

SpecFail == Init /\ [][NextFail]_vars

\* Interleaved calls of two ensureJSSelector selectors and of two
\* createGetSelector selectors.
NextTwo ==
    \/ \E s \in TwoInstances \cap EnsureJSInstances, v \in TwoValues : CallEnsureJS(s, v)
    \/ \E s \in TwoInstances \cap GetInstances, obj \in TwoContainers :
           CallGet(s, obj, Undefined)

SpecTwo == Init /\ [][NextTwo]_vars

-----------------------------------------------------------------------------
(* Properties of ensureJSSelector and selectorToJS *)

JSInstances == EnsureJSInstances \cup ToJSInstances

Returned(i) == ~IsFailure(log[i].out)

\* The calls of log[j]'s instance before call j.
Earlier(j) == {i \in 1..(j - 1) : log[i].sel = log[j].sel}

HasPrev(j) == Earlier(j) # {}

\* The call of log[j]'s instance immediately preceding call j.
Prev(j) == CHOOSE i \in Earlier(j) : \A k \in Earlier(j) : k <= i

\* C1 as stated: any two calls of one normalizing selector whose wrapped
\* values are Immutable.is-equal return the same reference, whatever was
\* called in between.
C1_AnyTwoCallsSameRef ==
    \A i, j \in DOMAIN log :
        (/\ log[i].sel \in JSInstances /\ log[i].sel = log[j].sel
         /\ Returned(i) /\ Returned(j)
         /\ Is(log[i].args[1], log[j].args[1]))
        => StrictEq(log[i].out, log[j].out)

\* C1 amended: two calls of one normalizing selector whose wrapped values
\* are Immutable.is-equal return the same reference when every call of that
\* selector between them also had an Immutable.is-equal wrapped value.
C1_SameRefWhileInputEqual ==
    \A i, j \in DOMAIN log :
        (/\ i < j
         /\ log[i].sel \in JSInstances /\ log[i].sel = log[j].sel
         /\ Returned(i) /\ Returned(j)
         /\ \A k \in i..j : log[k].sel = log[i].sel => Is(log[k].args[1], log[i].args[1]))
        => StrictEq(log[i].out, log[j].out)

\* Two calls on collections that are equal but not identical gave one and
\* the same converted object.
C1_Witness ==
    \E i, j \in DOMAIN log :
        /\ i < j /\ log[i].sel \in JSInstances /\ log[i].sel = log[j].sel
        /\ log[i].args[1].kind \in ImmutableKinds
        /\ ~StrictEq(log[i].args[1], log[j].args[1])
        /\ Is(log[i].args[1], log[j].args[1])
        /\ StrictEq(log[i].out, log[j].out)

\* C2: a call whose wrapped value is Immutable.is-equal to the one of the
\* immediately preceding call of the instance returns the reference that call
\* returned without running the conversion; the cached result is replaced
\* only on the first call or when the value is not Immutable.is-equal to the
\* previous one.
C2_PreviousResultReused ==
    \A j \in DOMAIN log :
        log[j].sel \in JSInstances =>
            /\ (/\ HasPrev(j) /\ Returned(Prev(j))
                /\ Is(log[j].args[1], log[Prev(j)].args[1]))
               => (StrictEq(log[j].out, log[Prev(j)].out) /\ ~log[j].recomputed)
            /\ (log[j].recomputed /\ Returned(j))
               => (~HasPrev(j) \/ ~Is(log[j].args[1], log[Prev(j)].args[1]))

\* A call on an equal but not identical collection was answered from the
\* memo cell, and a later call on another collection replaced the result.
C2_Witness ==
    \E i, j, k \in DOMAIN log :
        /\ log[i].sel \in JSInstances /\ log[j].sel = log[i].sel /\ log[k].sel = log[i].sel
        /\ HasPrev(j) /\ Prev(j) = i /\ HasPrev(k) /\ Prev(k) = j
        /\ log[i].args[1].kind \in ImmutableKinds
        /\ ~StrictEq(log[i].args[1], log[j].args[1])
        /\ Is(log[i].args[1], log[j].args[1])
        /\ ~log[j].recomputed
        /\ log[k].recomputed /\ ~StrictEq(log[k].out, log[j].out)

\* C3 as stated: ensureJSSelector returns null for every falsy wrapped value.
C3_FalsyGivesNull ==
    \A i \in DOMAIN log :
        (log[i].sel \in EnsureJSInstances /\ ~Truthy(log[i].args[1]))
        => log[i].out = Null

\* C3 amended: ensureJSSelector returns null when the wrapped value is
\* undefined or null, and returns false, 0 and the empty string themselves.
C3_OnlyAbsentGivesNull ==
    \A i \in DOMAIN log :
        log[i].sel \in EnsureJSInstances =>
            /\ log[i].args[1] \in {Undefined, Null} => log[i].out = Null
            /\ log[i].args[1] \in {Bool(FALSE), Num(0), Str("")} => log[i].out = log[i].args[1]

\* undefined came out as null and 0 came out as 0.
C3_Witness ==
    \E i, j \in DOMAIN log :
        /\ log[i].sel \in EnsureJSInstances /\ log[j].sel = log[i].sel
        /\ log[i].args[1] = Undefined /\ log[i].out = Null
        /\ log[j].args[1] = Num(0) /\ log[j].out = Num(0)

\* C4: for a number, a string, a boolean, a plain object, an array or an
\* object whose toJS is no function, ensureJSSelector returns the very value
\* it was given, on every call.
C4_PlainPassThrough ==
    \A i \in DOMAIN log :
        (/\ log[i].sel \in EnsureJSInstances
         /\ log[i].args[1].kind \in {"number", "string", "boolean", "object", "array"})
        => (log[i].out = log[i].args[1] /\ StrictEq(log[i].out, log[i].args[1]))

\* A plain object was returned right after an equal but distinct plain
\* object, and the object whose toJS is no function was returned as given.
C4_Witness ==
    \E i, j, k \in DOMAIN log :
        /\ log[i].sel \in EnsureJSInstances /\ log[j].sel = log[i].sel /\ log[k].sel = log[i].sel
        /\ i < j
        /\ log[i].args[1] = PlainObj1 /\ log[j].args[1] = PlainObj2
        /\ log[j].out = PlainObj2
        /\ log[k].args[1] = NoFnToJS /\ log[k].out = NoFnToJS

\* C5: for a wrapped value with a callable toJS, ensureJSSelector returns a
\* plain structure deep-equal to toJS() of the value of the current call,
\* also when the call is answered from the memo cell.
C5_ConvertedDeepEqual ==
    \A i \in DOMAIN log :
        (/\ log[i].sel \in EnsureJSInstances
         /\ Truthy(log[i].args[1]) /\ HasToJS(log[i].args[1]) /\ ToJSCallable(log[i].args[1]))
        => DeepEqual(log[i].out, ToJS(log[i].args[1], 0))

\* A nested collection was converted, and a later call on an equal
\* collection with other identities was answered from the memo cell.
C5_Witness ==
    \E i, j \in DOMAIN log :
        /\ i < j
        /\ log[i].sel \in EnsureJSInstances /\ log[j].sel = log[i].sel
        /\ log[i].args[1] = NestedA /\ log[i].recomputed
        /\ log[j].args[1] = NestedB /\ ~log[j].recomputed
        /\ log[j].out.kind = "object"

-----------------------------------------------------------------------------

(* Properties of createPropsSelector *)

\* C6: createPropsSelector's selector returns the object of the previous
\* call when every entry's underlying value is unchanged or Immutable.is-equal
\* to the one of that call, and a new object only when the normalized value of
\* some entry is another reference than on that call.
C6_PropsStable ==
    \A j \in DOMAIN log :
        (log[j].sel = "P" /\ HasPrev(j)) =>
            LET i == Prev(j)
            IN  /\ (\A k \in DOMAIN PropKeys : Is(log[j].args[k], log[i].args[k]))
                   => StrictEq(log[j].out, log[i].out)
                /\ ~StrictEq(log[j].out, log[i].out)
                   => \E k \in DOMAIN PropKeys :
                          ~StrictEq(log[j].out.items[k], log[i].out.items[k])

\* The previous object came back for equal collections with other
\* identities, and a new object came for another collection.
C6_Witness ==
    \E i, j, k \in DOMAIN log :
        /\ log[i].sel = "P" /\ log[j].sel = "P" /\ log[k].sel = "P"
        /\ j = i + 1 /\ k = j + 1
        /\ log[i].args = <<List123a, NestedA>>
        /\ log[j].args = <<List123b, NestedB>>
        /\ StrictEq(log[j].out, log[i].out)
        /\ log[k].args = <<List12, NestedB>>
        /\ ~StrictEq(log[k].out, log[j].out)

\* C7: the object createPropsSelector's selector returns has exactly the
\* mapping's keys, and under each key what ensureJSSelector of that key's
\* selector gives for the state: a plain value itself, a collection converted.
C7_PropsKeysAndValues ==
    \A i \in DOMAIN log :
        log[i].sel = "P" =>
            /\ log[i].out.kind = "object"
            /\ log[i].out.keys = PropKeys
            /\ Len(log[i].out.items) = Len(PropKeys)
            /\ \A k \in DOMAIN PropKeys :
                   LET v == log[i].args[k]
                       x == Lookup(log[i].out, PropKeys[k])
                   IN  /\ DeepEqual(x, EnsureJSFunc(v, 0))
                       /\ v.kind \notin ImmutableKinds => x = EnsureJSFunc(v, 0)

\* A call gave a converted List under a and a string under b, after a call
\* with other values.
C7_Witness ==
    \E i \in DOMAIN log :
        /\ i > 1 /\ log[i].sel = "P"
        /\ log[i].args = <<List12, Str("string")>>
        /\ log[i - 1].args = <<PlainObj1, NestedA>>
        /\ Lookup(log[i].out, "a").kind = "array"
        /\ Lookup(log[i].out, "b") = Str("string")

-----------------------------------------------------------------------------
(* Properties of createGetSelector, createHasSelector and invertSelector *)

\* C8: every call of a createGetSelector selector gives what get(k,
\* defaultValue) of the container selected on that call gives, k the key
\* selector's value on that call or the literal key: the value at k, or
\* defaultValue when k is absent.
C8_GetIsContainerGet ==
    \A i \in DOMAIN log :
        log[i].sel \in GetInstances =>
            LET s == log[i].sel
                k == IF s = "GSel" THEN log[i].args[2] ELSE LiteralKey(s)
            IN  IF HasGet(log[i].args[1])
                THEN log[i].out = ImmutableGet(log[i].args[1], k, DefaultValue(s))
                ELSE log[i].out = TypeError

\* The key selector's key changed on one and the same Map, from a present
\* key to an absent one, and the literal key 1 was found in a List.
C8_Witness ==
    \E i, j, k \in DOMAIN log :
        /\ j = i + 1
        /\ log[i].sel = "GSel" /\ log[i].args = <<MapKey, Str("key")>>
        /\ log[i].out = Str("value")
        /\ log[j].sel = "GSel" /\ log[j].args = <<MapKey, Str("absent")>>
        /\ log[j].out = Str("key not found")
        /\ log[k].sel = "GInt" /\ log[k].args[1] = ListTwo /\ log[k].out = Str("first")

\* C9: every call of a createHasSelector selector gives the boolean has(k)
\* of the container selected on that call: true exactly when k is a key of
\* the Map or an index of the List.
C9_HasIsContainerHas ==
    \A i \in DOMAIN log :
        log[i].sel \in HasInstances =>
            LET s == log[i].sel
                k == IF s = "HSel" THEN log[i].args[2] ELSE LiteralKey(s)
            IN  IF HasGet(log[i].args[1])
                THEN log[i].out = Bool(ImmutableHas(log[i].args[1], k))
                ELSE log[i].out = TypeError

\* The key selector's key changed on one and the same Map from a present key
\* to an absent one, and the literal key 1 was not found in a List of one.
C9_Witness ==
    \E i, j, k \in DOMAIN log :
        /\ j = i + 1
        /\ log[i].sel = "HSel" /\ log[i].args = <<MapKey, Str("key")>>
        /\ log[i].out = Bool(TRUE)
        /\ log[j].sel = "HSel" /\ log[j].args = <<MapKey, Str("absent")>>
        /\ log[j].out = Bool(FALSE)
        /\ log[k].sel = "HInt" /\ log[k].args[1] = ListOne /\ log[k].out = Bool(FALSE)

\* C10: for a boolean b, invertSelector's selector gives the negation of b
\* and the inversion of the inverted selector gives b, on every call.
C10_InvertNegates ==
    \A i \in DOMAIN log :
        log[i].args[1].kind = "boolean" =>
            /\ log[i].sel = "Inv" => log[i].out = Bool(log[i].args[1] = Bool(FALSE))
            /\ log[i].sel = "InvInv" => log[i].out = log[i].args[1]

\* Both selectors were called on true and then on false.
C10_Witness ==
    \E i, j \in DOMAIN log :
        /\ i < j /\ j + 1 \in DOMAIN log
        /\ log[i].sel = "InvInv" /\ log[i].args[1] = Bool(TRUE) /\ log[i].out = Bool(TRUE)
        /\ log[j].sel = "InvInv" /\ log[j].args[1] = Bool(FALSE) /\ log[j].out = Bool(FALSE)
        /\ log[j + 1].sel = "Inv" /\ log[j + 1].args[1] = Bool(FALSE)
        /\ log[j + 1].out = Bool(TRUE)

-----------------------------------------------------------------------------
(* Failures and memo cells *)

\* The values of the input selectors of call i, in the order they run: a
\* literal key is no input selector.
Inputs(i) == IF log[i].sel \in {"GStr", "GInt", "HStr", "HInt"}
             THEN <<log[i].args[1]>>
             ELSE log[i].args

\* The combiner of call i raises on its inputs: get or has on a value
\* without that method, toJS raising.
CombinerRaises(i) ==
    IF log[i].sel \in GetInstances \cup HasInstances
    THEN log[i].args[1].kind \notin ImmutableKinds
    ELSE \E k \in DOMAIN log[i].args : log[i].args[k].kind = "Custom"

\* C11: a failure raised by an input selector or by the combiner comes out
\* of the call of a createPropsSelector, ensureJSSelector, createGetSelector
\* or createHasSelector selector as that failure; no value (null,
\* defaultValue, a cached result) is returned in its place.
C11_FailuresSurface ==
    \A i \in DOMAIN log :
        log[i].sel \in EnsureJSInstances \cup {"P"} \cup GetInstances \cup HasInstances =>
            IF \E k \in DOMAIN Inputs(i) : IsFailure(Inputs(i)[k])
            THEN \E k \in DOMAIN Inputs(i) :
                     /\ log[i].out = Inputs(i)[k]
                     /\ \A q \in 1..(k - 1) : ~IsFailure(Inputs(i)[q])
            ELSE CombinerRaises(i) =>
                     log[i].out = (IF log[i].sel \in GetInstances \cup HasInstances
                                   THEN TypeError ELSE ToJSError)

\* get on undefined raised a TypeError right after a call that had cached a
\* value, and the props selector raised what its second selector raised.
C11_Witness ==
    \E i, k \in DOMAIN log :
        /\ i + 1 \in DOMAIN log
        /\ log[i].sel = "GStr" /\ log[i].args[1] = MapKey /\ log[i].out = Str("value")
        /\ log[i + 1].sel = "GStr" /\ log[i + 1].args[1] = Undefined
        /\ log[i + 1].out = TypeError
        /\ log[k].sel = "P" /\ log[k].args = <<List123a, SelectorError>>
        /\ log[k].out = SelectorError

\* The arguments call i hands to the memoized combiner.
MemoArgs(i) == IF log[i].sel \in GetInstances \cup HasInstances
               THEN LookupArgs(log[i].sel, log[i].args[1], log[i].args[2])
               ELSE log[i].args

\* The calls of instance s that returned.
ReturnedCalls(s) == {i \in DOMAIN log : log[i].sel = s /\ Returned(i)}

LastReturned(s) == CHOOSE i \in ReturnedCalls(s) : \A k \in ReturnedCalls(s) : k <= i

\* The memo cell of s holds what the calls of s alone determine.
OwnCell(s) ==
    IF ReturnedCalls(s) = {} THEN memo[s] = EmptyCell
    ELSE /\ memo[s].called
         /\ memo[s].lastArgs = MemoArgs(LastReturned(s))
         /\ memo[s].lastResult = log[LastReturned(s)].out

\* A call changes no memo cell but the caller's.
OthersUnchanged ==
    Len(log') = Len(log) + 1 =>
        \A s \in TwoInstances : s # log'[Len(log')].sel => memo'[s] = memo[s]

\* C12: each selector instance owns its memo cell.  A call of one instance
\* leaves the previous-input and previous-result of every other instance
\* unchanged, each cell holds what its own instance's last call put there,
\* and a call of S2 whose input is Immutable.is-equal to the input of S2's
\* previous call returns that call's reference without recomputing,
\* whatever calls of other instances came between the two.
C12_OwnMemoCell ==
    /\ [][OthersUnchanged]_vars
    /\ [](\A s \in TwoInstances : OwnCell(s))
    /\ [](\A j \in DOMAIN log :
             (/\ log[j].sel \in TwoInstances
              /\ HasPrev(j)
              /\ \A k \in DOMAIN MemoArgs(j) : Is(MemoArgs(Prev(j))[k], MemoArgs(j)[k]))
             => /\ ~log[j].recomputed
                /\ StrictEq(log[j].out, log[Prev(j)].out))

\* E2 converted a List, E1 was then called with another list, and E2 called
\* with an equal List returned its first reference.
C12_Witness ==
    /\ Len(log) >= 3
    /\ log[1].sel = "E2" /\ log[1].args = <<List123a>> /\ log[1].recomputed
    /\ log[2].sel = "E1" /\ log[2].args = <<List12>> /\ log[2].recomputed
    /\ log[3].sel = "E2" /\ log[3].args = <<List123b>> /\ ~log[3].recomputed
    /\ StrictEq(log[3].out, log[1].out)
    /\ ~StrictEq(log[3].out, log[2].out)
    /\ memo["E1"].lastArgs = <<List12>>
    /\ memo["E2"].lastArgs = <<List123b>>

\* The selectors of SpecFail built by createGetSelector, createHasSelector
\* and ensureJSSelector.
FailInstances == {"E1", "GStr", "GSel", "HStr", "HSel"}

\* The calls of log[j]'s instance before call j that returned.
EarlierReturned(j) == {i \in Earlier(j) : Returned(i)}

LastSuccess(j) == CHOOSE i \in EarlierReturned(j) : \A k \in EarlierReturned(j) : k <= i

\* C13: a call that raises leaves the memo cell of its selector as it was.
\* The cell of a get, has or ensureJS selector always holds the inputs and
\* the result of the instance's last successful call (it is empty when there
\* was none), never a failure; so a call whose inputs equal those of the
\* last successful call returns that call's result without recomputing,
\* however many calls raised in between, and a call answered from the cell
\* never returns a failure.
C13_FailedCallKeepsCell ==
    /\ \A s \in FailInstances : OwnCell(s) /\ ~IsFailure(memo[s].lastResult)
    /\ \A j \in DOMAIN log :
           (/\ log[j].sel \in FailInstances
            /\ \A k \in DOMAIN MemoArgs(j) : ~IsFailure(MemoArgs(j)[k]))
           => /\ ~log[j].recomputed => Returned(j)
              /\ (/\ EarlierReturned(j) # {}
                  /\ \A k \in DOMAIN MemoArgs(j) :
                         Is(MemoArgs(LastSuccess(j))[k], MemoArgs(j)[k]))
                 => /\ ~log[j].recomputed
                    /\ StrictEq(log[j].out, log[LastSuccess(j)].out)

\* get returned a cached value, then raised on undefined, then returned the
\* cached value for the first container without recomputing.
C13_Witness ==
    /\ Len(log) >= 3
    /\ log[1].sel = "GStr" /\ log[1].args[1] = MapKey /\ log[1].out = Str("value")
    /\ log[2].sel = "GStr" /\ log[2].args[1] = Undefined /\ log[2].out = TypeError
    /\ log[3].sel = "GStr" /\ log[3].args[1] = MapKey /\ log[3].out = Str("value")
    /\ ~log[3].recomputed
    /\ memo["GStr"].lastArgs = <<MapKey>>

-----------------------------------------------------------------------------

Next == NextJS \/ NextProps \/ NextGet \/ NextHas \/ NextInvert \/ NextFail \/ NextTwo

Spec == Init /\ [][Next]_vars

====
